---- MODULE Spec2Model ----
(***************************************************************************)
(* A model of AgenticChunker (src/Advanced/agentic_chunker.py).            *)
(*                                                                         *)
(* Text is modelled as a sequence of one-character strings, so that        *)
(* str.strip, str.upper, slicing and the substring test are computed.      *)
(* self.chunks, a dict that keeps insertion order, is a sequence of chunk  *)
(* records in insertion order whose chunk_id fields are the keys.          *)
(* A call of add_proposition is split at its oracle calls: one action per  *)
(* oracle round trip, each of which may raise.                             *)
(***************************************************************************)
EXTENDS Integers, Sequences, FiniteSets, TLC

VARIABLES
    chunks,                     \* self.chunks
    generate_new_metadata_ind,  \* self.generate_new_metadata_ind
    input,                      \* per caller: propositions still to be added
    pc,                         \* per caller: position inside add_proposition
    proposition,                \* per caller: argument of the running call
    result,                     \* per caller: stripped text of the placement response
    chunk_id,                   \* per caller: value returned by _find_relevant_chunk
    returned_by,                \* per caller: the return statement it left by
    new_chunk_id,               \* per caller: local of _create_new_chunk
    new_chunk_summary,          \* per caller: local of _create_new_chunk
    outline,                    \* per caller: outline sent with the placement query
    trace,                      \* per caller: oracle calls issued by the running call
    snapshot,                   \* per caller: self.chunks when the running call began
    arrived,                    \* propositions whose call returned normally, in order
    created,                    \* chunk ids stored by _create_new_chunk, in order
    got,                        \* what get_chunks returned since the last add_proposition
    shown                       \* what get_chunk_outline returned since then, and how often

vars == <<chunks, generate_new_metadata_ind, input, pc, proposition, result,
          chunk_id, returned_by, new_chunk_id, new_chunk_summary, outline, trace,
          snapshot, arrived, created, got, shown>>

----------------------------------------------------------------------------
(* Bounds and program constants *)

MaxProps == 3

MaxOutlineCalls == 2

MaxViewProps == 2

MaxLiveProps == 2

id_truncate_limit == 5

Callers == {1, 2}

Min(S) == CHOOSE x \in S : \A y \in S : x <= y

Max(S) == CHOOSE x \in S : \A y \in S : x >= y

----------------------------------------------------------------------------
(* Text *)

LowerCase == <<"a","b","c","d","e","f","g","h","i","j","k","l","m",
               "n","o","p","q","r","s","t","u","v","w","x","y","z">>

UpperCase == <<"A","B","C","D","E","F","G","H","I","J","K","L","M",
               "N","O","P","Q","R","S","T","U","V","W","X","Y","Z">>

Whitespace == {" ", "\n", "\t"}

UpperChar(c) ==
    IF \E i \in 1..Len(LowerCase) : LowerCase[i] = c
    THEN UpperCase[CHOOSE i \in 1..Len(LowerCase) : LowerCase[i] = c]
    ELSE c

\* str.upper()
upper(s) == [i \in 1..Len(s) |-> UpperChar(s[i])]

\* str.strip()
strip(s) ==
    LET keep == {i \in 1..Len(s) : s[i] \notin Whitespace}
    IN  IF keep = {} THEN <<>> ELSE SubSeq(s, Min(keep), Max(keep))

\* s[:n]
Truncate(s, n) == SubSeq(s, 1, IF Len(s) < n THEN Len(s) ELSE n)

\* sub in s, for strings
Contains(sub, s) ==
    \E i \in 1..(Len(s) - Len(sub) + 1) : SubSeq(s, i, i + Len(sub) - 1) = sub

\* Python's None, distinct from every text
None == <<"None">>

\* truth value of an Optional[str] in `if chunk_id:`
Truthy(x) == x # None /\ x # <<>>

----------------------------------------------------------------------------
(* The chunk store *)

\* list(self.chunks.keys())
Keys(ch) == [i \in 1..Len(ch) |-> ch[i].chunk_id]

\* key in self.chunks
HasKey(ch, k) == \E i \in 1..Len(ch) : ch[i].chunk_id = k

\* self.chunks[key]
Lookup(ch, k) == ch[CHOOSE i \in 1..Len(ch) : ch[i].chunk_id = k]

\* self.chunks[key] = value: an existing key keeps its place, a new key goes last
DictSet(ch, k, v) ==
    IF HasKey(ch, k)
    THEN [i \in 1..Len(ch) |-> IF ch[i].chunk_id = k THEN v ELSE ch[i]]
    ELSE Append(ch, v)

\* the record built by _create_new_chunk
NewChunk(ch, id, p, title, summary) ==
    [chunk_id |-> id, propositions |-> <<p>>, title |-> title,
     summary |-> summary, chunk_index |-> Len(ch)]

\* the store after _create_new_chunk's assignment
StoreNewChunk(ch, id, p, title, summary) ==
    DictSet(ch, id, NewChunk(ch, id, p, title, summary))

\* the append made on every chunk of the store, the key left unread
AppendPropositionEverywhere(ch, k, p) ==
    [i \in 1..Len(ch) |-> [ch[i] EXCEPT !.propositions = Append(@, p)]]

\* self.chunks[chunk_id]['propositions'].append(proposition)
AppendProposition(ch, k, p) ==
    [i \in 1..Len(ch) |->
        IF ch[i].chunk_id = k
        THEN [ch[i] EXCEPT !.propositions = Append(@, p)]
        ELSE ch[i]]

SetSummary(ch, k, s) ==
    [i \in 1..Len(ch) |-> IF ch[i].chunk_id = k THEN [ch[i] EXCEPT !.summary = s] ELSE ch[i]]

SetTitle(ch, k, s) ==
    [i \in 1..Len(ch) |-> IF ch[i].chunk_id = k THEN [ch[i] EXCEPT !.title = s] ELSE ch[i]]

\* get_chunk_outline: one block of id, title and summary per chunk, in store order
get_chunk_outline(ch) ==
    [i \in 1..Len(ch) |->
        <<"Chunk ID: ", ch[i].chunk_id, "\nChunk Name: ", ch[i].title,
          "\nChunk Summary: ", ch[i].summary, "\n\n">>]

\* the texts of the propositions 1, 2, ...: each has a space inside
Digits == <<"1", "2", "3", "4", "5", "6", "7", "8", "9">>

PropositionText(p) == <<"p", " ", Digits[p], ".">>

\* sep.join(texts)
RECURSIVE join(_, _)
join(sep, texts) ==
    IF texts = <<>> THEN <<>>
    ELSE IF Len(texts) = 1 THEN texts[1]
    ELSE texts[1] \o sep \o join(sep, Tail(texts))

\* the texts of chunk['propositions']
Texts(chunk) ==
    [j \in 1..Len(chunk.propositions) |-> PropositionText(chunk.propositions[j])]

\* get_chunks joining the propositions with a newline, as the prompts do
get_chunks_newline(get_type, ch) ==
    IF get_type = "dict" THEN ch
    ELSE IF get_type = "list_of_strings"
         THEN [i \in 1..Len(ch) |-> join(<<"\n">>, Texts(ch[i]))]
         ELSE None

\* get_chunks: the store itself, the joined strings, or None for another type
get_chunks(get_type, ch) ==
    IF get_type = "dict" THEN ch
    ELSE IF get_type = "list_of_strings"
         THEN [i \in 1..Len(ch) |-> join(<<" ">>, Texts(ch[i]))]
         ELSE None

\* no view has been returned since the last add_proposition began
NothingGot == [get_type |-> "", value |-> <<>>]

NothingShown == [calls |-> 0, text |-> <<>>]

----------------------------------------------------------------------------
(* The oracle *)

\* the first id_truncate_limit characters of str(uuid.uuid4()): lower-case hex
NewIds == { <<"a","b","c","d","e">>,
            <<"b","c","d","e","f">>,
            <<"0","0","0","0","1">> }

\* the list on line 140
NoMatchPhrases == { <<"N","O","N","E">>,
                    <<"N","O"," ","C","H","U","N","K","S">>,
                    <<"N","O"," ","M","A","T","C","H">>,
                    <<"N","O">> }

\* raw contents of placement responses the model draws from
Responses ==
    { <<"N","O","N","E">>,
      <<"n","o","n","e">>,
      <<"N","o","n","e">>,
      <<"n","O","n","E">>,
      <<" ","n","o","n","e","\n">>,
      <<"N","O">>,
      <<"n","o">>,
      <<"N","o">>,
      <<"n","o"," ","m","a","t","c","h">>,
      <<"N","o"," ","M","a","t","c","h">>,
      <<"N","O"," ","C","H","U","N","K","S">>,
      <<"n","o"," ","c","h","u","n","k","s">>,
      <<"n","o","p","e">>,
      <<"n","o","n","e",".">>,
      <<"n","o"," ","c","h","u","n","k">>,
      <<>>,
      <<" "," ">>,
      <<"z","z","z","z","z">>,
      <<"a","b","c","d">>,
      <<"A","B","C","D","E">>,
      <<"a","b","c","d","e">>,
      <<"b","c","d","e","f">>,
      <<"0","0","0","0","1">>,
      <<" ","a","b","c","d","e","\n">>,
      <<"a","b","c","d","e"," ","o","k">>,
      <<"b","c","d","e","f",","," ","I"," ","t","h","i","n","k">>,
      <<"0","0","0","0","1",".">>,
      <<"i","d"," ","a","b","c","d","e","!">>,
      <<"t","h","e"," ","c","h","u","n","k"," ","b","c","d","e","f"," ","f","i","t","s">>,
      <<"(","0","0","0","0","1",")">>,
      <<"a","b","c","d","e","f">>,
      <<"x","a","b","c","d","e","f">>,
      <<"b","c","d","e","f"," ","o","r"," ","a","b","c","d","e","?">>,
      <<"i","s"," ","0","0","0","0","1"," ","o","r"," ","b","c","d","e","f">> }

\* texts returned by the summary calls
Summaries == {"s1", "s2"}

\* texts returned by the title calls
Titles == {"t1", "t2"}

----------------------------------------------------------------------------
(* _find_relevant_chunk, from the stripped response to its return value *)

\* result.upper() in ["NONE", "NO CHUNKS", "NO MATCH", "NO"], with the
\* comparison made on the text as given (no upper())
is_no_match_case_sensitive(r) == r \in NoMatchPhrases

\* result.upper() in ["NONE", "NO CHUNKS", "NO MATCH", "NO"]
is_no_match(r) == upper(r) \in NoMatchPhrases

\* the loop keeping the last key found in r instead of returning at the first
scan_chunk_ids_last(r, ch) ==
    LET hits == {i \in 1..Len(ch) : Contains(ch[i].chunk_id, r)}
    IN  IF hits = {} THEN None ELSE ch[Max(hits)].chunk_id

\* the loop over self.chunks.keys(): the first key, in store order, found in r
scan_chunk_ids(r, ch) ==
    LET hits == {i \in 1..Len(ch) : Contains(ch[i].chunk_id, r)}
    IN  IF hits = {} THEN None ELSE ch[Min(hits)].chunk_id

\* _find_relevant_chunk that takes any response of id length for a chunk id
find_relevant_chunk_trusts_length(r, ch) ==
    IF is_no_match(r) THEN None
    ELSE IF Len(r) = id_truncate_limit THEN r
    ELSE IF HasKey(ch, Truncate(r, id_truncate_limit)) THEN Truncate(r, id_truncate_limit)
    ELSE scan_chunk_ids(r, ch)

\* _find_relevant_chunk that falls back to the first chunk instead of None
find_relevant_chunk_guess(r, ch) ==
    IF is_no_match(r) THEN None
    ELSE IF HasKey(ch, r) THEN r
    ELSE IF HasKey(ch, Truncate(r, id_truncate_limit)) THEN Truncate(r, id_truncate_limit)
    ELSE IF scan_chunk_ids(r, ch) # None THEN scan_chunk_ids(r, ch)
    ELSE IF Len(ch) > 0 THEN ch[1].chunk_id ELSE None

\* _find_relevant_chunk without the scan for an id inside the response
find_relevant_chunk_no_scan(r, ch) ==
    IF is_no_match(r) THEN None
    ELSE IF HasKey(ch, r) THEN r
    ELSE IF HasKey(ch, Truncate(r, id_truncate_limit)) THEN Truncate(r, id_truncate_limit)
    ELSE None

\* the return statement _find_relevant_chunk leaves by: the no-match test of
\* line 140, the key test of 144, the truncated key test of 148, the scan of
\* 152-154, or the last line
find_relevant_chunk_return(r, ch) ==
    IF is_no_match(r) THEN "no match phrase"
    ELSE IF HasKey(ch, r) THEN "chunk id"
    ELSE IF HasKey(ch, Truncate(r, id_truncate_limit)) THEN "truncated chunk id"
    ELSE IF scan_chunk_ids(r, ch) # None THEN "chunk id in response"
    ELSE "nothing found"

find_relevant_chunk(r, ch) ==
    CASE find_relevant_chunk_return(r, ch) = "no match phrase" -> None
      [] find_relevant_chunk_return(r, ch) = "chunk id" -> r
      [] find_relevant_chunk_return(r, ch) = "truncated chunk id" ->
            Truncate(r, id_truncate_limit)
      [] find_relevant_chunk_return(r, ch) = "chunk id in response" ->
            scan_chunk_ids(r, ch)
      [] OTHER -> None

----------------------------------------------------------------------------
(* add_proposition, one action per oracle round trip *)

Issue(t, call) == trace' = [trace EXCEPT ![t] = Append(@, call)]

Return(t) ==
    /\ pc' = [pc EXCEPT ![t] = "done"]
    /\ arrived' = Append(arrived, proposition[t])

\* the oracle call in flight raises; the exception leaves add_proposition
Raise(t) ==
    /\ pc' = [pc EXCEPT ![t] = "raised"]
    /\ UNCHANGED <<chunks, generate_new_metadata_ind, input, proposition,
                   result, chunk_id, returned_by, new_chunk_id,
                   new_chunk_summary, outline, trace, snapshot, arrived,
                   created, got, shown>>

\* add_proposition that sends the placement query whatever the store holds
AddPropositionAlwaysAsks(t) ==
    /\ pc[t] \in {"idle", "done", "raised"}
    /\ input[t] # <<>>
    /\ proposition' = [proposition EXCEPT ![t] = Head(input[t])]
    /\ input' = [input EXCEPT ![t] = Tail(@)]
    /\ snapshot' = [snapshot EXCEPT ![t] = chunks]
    /\ result' = [result EXCEPT ![t] = None]
    /\ chunk_id' = [chunk_id EXCEPT ![t] = None]
    /\ returned_by' = [returned_by EXCEPT ![t] = "not called"]
    /\ got' = NothingGot
    /\ shown' = NothingShown
    /\ outline' = [outline EXCEPT ![t] = get_chunk_outline(chunks)]
    /\ trace' = [trace EXCEPT ![t] = <<"find">>]
    /\ pc' = [pc EXCEPT ![t] = "find"]
    /\ UNCHANGED <<chunks, generate_new_metadata_ind, new_chunk_id,
                   new_chunk_summary, arrived, created>>

\* add_proposition that sends the outline of an earlier query again
AddPropositionStaleOutline(t) ==
    /\ pc[t] \in {"idle", "done", "raised"}
    /\ input[t] # <<>>
    /\ proposition' = [proposition EXCEPT ![t] = Head(input[t])]
    /\ input' = [input EXCEPT ![t] = Tail(@)]
    /\ snapshot' = [snapshot EXCEPT ![t] = chunks]
    /\ result' = [result EXCEPT ![t] = None]
    /\ chunk_id' = [chunk_id EXCEPT ![t] = None]
    /\ returned_by' = [returned_by EXCEPT ![t] = "not called"]
    /\ got' = NothingGot
    /\ shown' = NothingShown
    /\ IF Len(chunks) = 0
       THEN /\ pc' = [pc EXCEPT ![t] = "create"]
            /\ trace' = [trace EXCEPT ![t] = <<>>]
       ELSE /\ trace' = [trace EXCEPT ![t] = <<"find">>]
            /\ pc' = [pc EXCEPT ![t] = "find"]
    /\ UNCHANGED <<chunks, generate_new_metadata_ind, new_chunk_id,
                   new_chunk_summary, outline, arrived, created>>

\* lines 18-28: entry, the empty-store test, and the placement query sent
AddProposition(t) ==
    /\ pc[t] \in {"idle", "done", "raised"}
    /\ input[t] # <<>>
    /\ proposition' = [proposition EXCEPT ![t] = Head(input[t])]
    /\ input' = [input EXCEPT ![t] = Tail(@)]
    /\ snapshot' = [snapshot EXCEPT ![t] = chunks]
    /\ result' = [result EXCEPT ![t] = None]
    /\ chunk_id' = [chunk_id EXCEPT ![t] = None]
    /\ returned_by' = [returned_by EXCEPT ![t] = "not called"]
    /\ got' = NothingGot
    /\ shown' = NothingShown
    /\ IF Len(chunks) = 0
       THEN /\ pc' = [pc EXCEPT ![t] = "create"]
            /\ trace' = [trace EXCEPT ![t] = <<>>]
            /\ UNCHANGED outline
       ELSE /\ outline' = [outline EXCEPT ![t] = get_chunk_outline(chunks)]
            /\ trace' = [trace EXCEPT ![t] = <<"find">>]
            /\ pc' = [pc EXCEPT ![t] = "find"]
    /\ UNCHANGED <<chunks, generate_new_metadata_ind, new_chunk_id,
                   new_chunk_summary, arrived, created>>

\* lines 134-156: the placement response arrives and is parsed
FindRelevantChunk(t) ==
    /\ pc[t] = "find"
    /\ \/ Raise(t)
       \/ \E content \in Responses :
            /\ result' = [result EXCEPT ![t] = strip(content)]
            /\ chunk_id' = [chunk_id EXCEPT ![t] =
                               find_relevant_chunk(strip(content), chunks)]
            /\ returned_by' = [returned_by EXCEPT ![t] =
                                  find_relevant_chunk_return(strip(content), chunks)]
            /\ pc' = [pc EXCEPT ![t] = "resolved"]
            /\ UNCHANGED <<chunks, generate_new_metadata_ind, input,
                           proposition, new_chunk_id, new_chunk_summary,
                           outline, trace, snapshot, arrived, created, got,
                           shown>>

\* add_proposition whose `else` is missing: after the append it goes on to
\* _create_new_chunk
AddPropositionToChunkFallsThrough(t) ==
    /\ pc[t] = "resolved"
    /\ Truthy(chunk_id[t])
    /\ IF HasKey(chunks, chunk_id[t])
       THEN /\ chunks' = AppendProposition(chunks, chunk_id[t], proposition[t])
            /\ pc' = [pc EXCEPT ![t] = "create"]
            /\ UNCHANGED <<trace, arrived>>
       ELSE /\ pc' = [pc EXCEPT ![t] = "raised"]
            /\ UNCHANGED <<chunks, trace, arrived>>
    /\ UNCHANGED <<generate_new_metadata_ind, input, proposition, result,
                   chunk_id, returned_by, new_chunk_id, new_chunk_summary,
                   outline, snapshot, created, got, shown>>

\* add_proposition_to_chunk that regenerates the metadata whatever the flag says
AddPropositionToChunkAlwaysRefreshes(t) ==
    /\ pc[t] = "resolved"
    /\ Truthy(chunk_id[t])
    /\ IF HasKey(chunks, chunk_id[t])
       THEN /\ chunks' = AppendProposition(chunks, chunk_id[t], proposition[t])
            /\ Issue(t, "update_summary")
            /\ pc' = [pc EXCEPT ![t] = "update_summary"]
            /\ UNCHANGED arrived
       ELSE /\ pc' = [pc EXCEPT ![t] = "raised"]
            /\ UNCHANGED <<chunks, trace, arrived>>
    /\ UNCHANGED <<generate_new_metadata_ind, input, proposition, result,
                   chunk_id, returned_by, new_chunk_id, new_chunk_summary,
                   outline, snapshot, created, got, shown>>

\* lines 30-33, 39-43: a chunk was found; append, then ask for a new summary
AddPropositionToChunk(t) ==
    /\ pc[t] = "resolved"
    /\ Truthy(chunk_id[t])
    /\ IF HasKey(chunks, chunk_id[t])
       THEN /\ chunks' = AppendProposition(chunks, chunk_id[t], proposition[t])
            /\ IF generate_new_metadata_ind
               THEN /\ Issue(t, "update_summary")
                    /\ pc' = [pc EXCEPT ![t] = "update_summary"]
                    /\ UNCHANGED arrived
               ELSE /\ Return(t)
                    /\ UNCHANGED trace
       ELSE \* KeyError
            /\ pc' = [pc EXCEPT ![t] = "raised"]
            /\ UNCHANGED <<chunks, trace, arrived>>
    /\ UNCHANGED <<generate_new_metadata_ind, input, proposition, result,
                   chunk_id, returned_by, new_chunk_id, new_chunk_summary,
                   outline, snapshot, created, got, shown>>

\* line 43: the summary arrives and is stored; the title call is sent
UpdateChunkSummary(t) ==
    /\ pc[t] = "update_summary"
    /\ \/ Raise(t)
       \/ \E s \in Summaries :
            /\ chunks' = SetSummary(chunks, chunk_id[t], s)
            /\ Issue(t, "update_title")
            /\ pc' = [pc EXCEPT ![t] = "update_title"]
            /\ UNCHANGED <<generate_new_metadata_ind, input, proposition,
                           result, chunk_id, returned_by, new_chunk_id,
                           new_chunk_summary, outline, snapshot, arrived,
                           created, got, shown>>

\* line 44: the title arrives and is stored
UpdateChunkTitle(t) ==
    /\ pc[t] = "update_title"
    /\ \/ Raise(t)
       \/ \E s \in Titles :
            /\ chunks' = SetTitle(chunks, chunk_id[t], s)
            /\ Return(t)
            /\ UNCHANGED <<generate_new_metadata_ind, input, proposition,
                           result, chunk_id, returned_by, new_chunk_id,
                           new_chunk_summary, outline, trace, snapshot, created,
                           got, shown>>

\* lines 25, 37, 94-95: _create_new_chunk draws the id and asks for the summary
CreateNewChunk(t) ==
    /\ \/ pc[t] = "create"
       \/ pc[t] = "resolved" /\ ~Truthy(chunk_id[t])
    /\ \E id \in NewIds : new_chunk_id' = [new_chunk_id EXCEPT ![t] = id]
    /\ Issue(t, "new_summary")
    /\ pc' = [pc EXCEPT ![t] = "new_summary"]
    /\ UNCHANGED <<chunks, generate_new_metadata_ind, input, proposition,
                   result, chunk_id, returned_by, new_chunk_summary, outline,
                   snapshot, arrived, created, got, shown>>

\* lines 95-96: the summary arrives; the title call is sent
GetNewChunkSummary(t) ==
    /\ pc[t] = "new_summary"
    /\ \/ Raise(t)
       \/ \E s \in Summaries :
            /\ new_chunk_summary' = [new_chunk_summary EXCEPT ![t] = s]
            /\ Issue(t, "new_title")
            /\ pc' = [pc EXCEPT ![t] = "new_title"]
            /\ UNCHANGED <<chunks, generate_new_metadata_ind, input,
                           proposition, result, chunk_id, returned_by,
                           new_chunk_id, outline, snapshot, arrived, created,
                           got, shown>>

\* _create_new_chunk writing back the store as the call found it, with the
\* new chunk added
GetNewChunkTitleFromSnapshot(t) ==
    /\ pc[t] = "new_title"
    /\ \/ Raise(t)
       \/ \E s \in Titles :
            /\ chunks' = StoreNewChunk(snapshot[t], new_chunk_id[t],
                                       proposition[t], s, new_chunk_summary[t])
            /\ created' = Append(created, new_chunk_id[t])
            /\ Return(t)
            /\ UNCHANGED <<generate_new_metadata_ind, input, proposition,
                           result, chunk_id, returned_by, new_chunk_id,
                           new_chunk_summary, outline, trace, snapshot, got,
                           shown>>

\* lines 96-104: the title arrives and the chunk is stored
GetNewChunkTitle(t) ==
    /\ pc[t] = "new_title"
    /\ \/ Raise(t)
       \/ \E s \in Titles :
            /\ chunks' = StoreNewChunk(chunks, new_chunk_id[t], proposition[t],
                                       s, new_chunk_summary[t])
            /\ created' = Append(created, new_chunk_id[t])
            /\ Return(t)
            /\ UNCHANGED <<generate_new_metadata_ind, input, proposition,
                           result, chunk_id, returned_by, new_chunk_id,
                           new_chunk_summary, outline, trace, snapshot, got,
                           shown>>

----------------------------------------------------------------------------
(* The views, read while no add_proposition is running *)

Quiescent == \A t \in Callers : pc[t] \in {"idle", "done", "raised"}

GetTypes == {"dict", "list_of_strings", "list"}

\* lines 164-168
GetChunks ==
    /\ Quiescent
    /\ \E get_type \in GetTypes :
         got' = [get_type |-> get_type, value |-> get_chunks(get_type, chunks)]
    /\ UNCHANGED <<chunks, generate_new_metadata_ind, input, pc, proposition,
                   result, chunk_id, returned_by, new_chunk_id,
                   new_chunk_summary, outline, trace, snapshot, arrived,
                   created, shown>>

\* get_chunk_outline adding to the text it returned before
GetChunkOutlineAccumulates ==
    /\ Quiescent
    /\ shown.calls < MaxOutlineCalls
    /\ shown' = [calls |-> shown.calls + 1,
                 text |-> shown.text \o get_chunk_outline(chunks)]
    /\ UNCHANGED <<chunks, generate_new_metadata_ind, input, pc, proposition,
                   result, chunk_id, returned_by, new_chunk_id,
                   new_chunk_summary, outline, trace, snapshot, arrived,
                   created, got>>

\* lines 158-162, called from outside
GetChunkOutline ==
    /\ Quiescent
    /\ shown.calls < MaxOutlineCalls
    /\ shown' = [calls |-> shown.calls + 1, text |-> get_chunk_outline(chunks)]
    /\ UNCHANGED <<chunks, generate_new_metadata_ind, input, pc, proposition,
                   result, chunk_id, returned_by, new_chunk_id,
                   new_chunk_summary, outline, trace, snapshot, arrived,
                   created, got>>

----------------------------------------------------------------------------
(* One caller adding propositions 1, 2, ..., one call after the other *)

Arrivals(n) == [i \in 1..n |-> i]

\* the state after construction, with the propositions each caller will add
Begin(first, second) ==
    /\ chunks = <<>>
    /\ generate_new_metadata_ind \in BOOLEAN
    /\ input = [t \in Callers |-> IF t = 1 THEN first ELSE second]
    /\ pc = [t \in Callers |-> "idle"]
    /\ proposition = [t \in Callers |-> 0]
    /\ result = [t \in Callers |-> None]
    /\ chunk_id = [t \in Callers |-> None]
    /\ returned_by = [t \in Callers |-> "not called"]
    /\ new_chunk_id = [t \in Callers |-> None]
    /\ new_chunk_summary = [t \in Callers |-> ""]
    /\ outline = [t \in Callers |-> <<>>]
    /\ trace = [t \in Callers |-> <<>>]
    /\ snapshot = [t \in Callers |-> <<>>]
    /\ arrived = <<>>
    /\ created = <<>>
    /\ got = NothingGot
    /\ shown = NothingShown

Init == \E n \in 1..MaxProps : Begin(Arrivals(n), <<>>)

Step(t) ==
    \/ AddProposition(t)
    \/ FindRelevantChunk(t)
    \/ AddPropositionToChunk(t)
    \/ UpdateChunkSummary(t)
    \/ UpdateChunkTitle(t)
    \/ CreateNewChunk(t)
    \/ GetNewChunkSummary(t)
    \/ GetNewChunkTitle(t)

Next == \E t \in Callers : Step(t)

Spec == Init /\ [][Next]_vars

----------------------------------------------------------------------------
(* The same caller, running on: a call that can take a step takes it *)

InitLive == \E n \in 1..MaxLiveProps : Begin(Arrivals(n), <<>>)

SpecLive == InitLive /\ [][Next]_vars /\ \A t \in Callers : WF_vars(Step(t))

----------------------------------------------------------------------------
(* Two callers on one store, with no lock: their calls interleave at the  *)
(* oracle calls                                                            *)

\* the first caller's first call has run alone and stored its chunk from the
\* empty store; its second call and the second caller's call are still to come
InitRace ==
    /\ generate_new_metadata_ind \in BOOLEAN
    /\ chunks = StoreNewChunk(<<>>, <<"a","b","c","d","e">>, 1, "t1", "s1")
    /\ input = [t \in Callers |-> IF t = 1 THEN <<2>> ELSE <<3>>]
    /\ pc = [t \in Callers |-> IF t = 1 THEN "done" ELSE "idle"]
    /\ proposition = [t \in Callers |-> IF t = 1 THEN 1 ELSE 0]
    /\ result = [t \in Callers |-> None]
    /\ chunk_id = [t \in Callers |-> None]
    /\ returned_by = [t \in Callers |-> "not called"]
    /\ new_chunk_id = [t \in Callers |->
                         IF t = 1 THEN <<"a","b","c","d","e">> ELSE None]
    /\ new_chunk_summary = [t \in Callers |-> IF t = 1 THEN "s1" ELSE ""]
    /\ outline = [t \in Callers |-> <<>>]
    /\ trace = [t \in Callers |->
                   IF t = 1 THEN <<"new_summary", "new_title">> ELSE <<>>]
    /\ snapshot = [t \in Callers |-> <<>>]
    /\ arrived = <<1>>
    /\ created = << <<"a","b","c","d","e">> >>
    /\ got = NothingGot
    /\ shown = NothingShown

SpecRace == InitRace /\ [][Next]_vars

----------------------------------------------------------------------------
(* The same caller, and the views read between its calls *)

InitViews == \E n \in 1..MaxViewProps : Begin(Arrivals(n), <<>>)

NextViews ==
    \/ \E t \in Callers : Step(t)
    \/ GetChunks
    \/ GetChunkOutline

SpecViews == InitViews /\ [][NextViews]_vars

TypeOK ==
    /\ \A i \in 1..Len(chunks) :
         /\ chunks[i].chunk_id \in NewIds
         /\ chunks[i].title \in Titles
         /\ chunks[i].summary \in Summaries
    /\ generate_new_metadata_ind \in BOOLEAN
    /\ \A t \in Callers :
         pc[t] \in {"idle", "find", "resolved", "create", "update_summary",
                    "update_title", "new_summary", "new_title", "done", "raised"}

----------------------------------------------------------------------------
(* Vocabulary of the properties *)

LowerChar(c) ==
    IF \E i \in 1..Len(UpperCase) : UpperCase[i] = c
    THEN LowerCase[CHOOSE i \in 1..Len(UpperCase) : UpperCase[i] = c]
    ELSE c

lower(s) == [i \in 1..Len(s) |-> LowerChar(s[i])]

\* the no-match phrases of the specification
Sentinels == { <<"n","o","n","e">>,
               <<"n","o"," ","m","a","t","c","h">>,
               <<"n","o"," ","c","h","u","n","k","s">>,
               <<"n","o">> }

IsSentinel(r) == lower(r) \in Sentinels

KnownIds(ch) == {ch[i].chunk_id : i \in 1..Len(ch)}

\* ids of the store that occur anywhere in r
IdsIn(r, ch) == {k \in KnownIds(ch) : Contains(k, r)}

\* k occurs in r with text before it and text after it
Surrounded(k, r) ==
    \E i \in 2..(Len(r) - Len(k)) : SubSeq(r, i, i + Len(k) - 1) = k

\* the three matching tiers
MatchesExactly(r, ch) == r \in KnownIds(ch)

MatchesTruncated(r, ch) ==
    \E k \in KnownIds(ch) : Len(r) >= Len(k) /\ SubSeq(r, 1, Len(k)) = k

MatchesInside(r, ch) == IdsIn(r, ch) # {}

MatchesNoTier(r, ch) ==
    ~MatchesExactly(r, ch) /\ ~MatchesTruncated(r, ch) /\ ~MatchesInside(r, ch)

IsPrefix(s, u) == Len(s) <= Len(u) /\ SubSeq(u, 1, Len(s)) = s

Occurrences(p, ch) ==
    UNION {{<<i, j>> : j \in {n \in 1..Len(ch[i].propositions) : ch[i].propositions[n] = p}} :
           i \in 1..Len(ch)}

Elements(s) == {s[i] : i \in 1..Len(s)}

\* _find_relevant_chunk has returned to add_proposition
Resolved(t) == pc[t] = "resolved"

----------------------------------------------------------------------------
(* C1 *)

\* C1: every proposition whose add_proposition call has returned is in the
\* 'propositions' list of exactly one chunk, exactly once, and every chunk
\* lists its propositions in the order of their arrival.
C1_ExactlyOneChunk ==
    /\ \A p \in Elements(arrived) : Cardinality(Occurrences(p, chunks)) = 1
    /\ \A i \in 1..Len(chunks) :
         \A j, k \in 1..Len(chunks[i].propositions) :
            j < k => chunks[i].propositions[j] < chunks[i].propositions[k]

----------------------------------------------------------------------------
(* C2 *)

\* C2: _create_new_chunk never stores the new chunk under an id that is already
\* a key of the store, and storing it makes the store one chunk longer.
C2_NoIdCollision ==
    [][\A t \in Callers :
          (pc[t] = "new_title" /\ pc'[t] = "done") =>
             /\ ~HasKey(chunks, new_chunk_id[t])
             /\ Len(chunks') = Len(chunks) + 1]_vars

----------------------------------------------------------------------------
(* C3 *)

\* C3: when an oracle call of add_proposition has raised, no chunk that existed
\* when the call began is partially updated: the call stored no new title, so
\* summary and title both hold the values they had when the call began.
C3_MetadataAllOrNothing ==
    \A t \in Callers :
        pc[t] = "raised" =>
            \A i \in 1..Len(snapshot[t]) :
                /\ chunks[i].summary = snapshot[t][i].summary
                /\ chunks[i].title = snapshot[t][i].title

----------------------------------------------------------------------------
(* C4 *)

\* C4: when an oracle call of add_proposition has raised, the store equals the
\* store the call began with, and no oracle call was issued twice.
C4_FailureLeavesStoreUnchanged ==
    \A t \in Callers :
        pc[t] = "raised" =>
            /\ chunks = snapshot[t]
            /\ \A i, j \in 1..Len(trace[t]) : i # j => trace[t][i] # trace[t][j]

----------------------------------------------------------------------------
(* C5 *)

\* C5 as stated: whenever the placement response contains a known chunk id
\* surrounded by other text, _find_relevant_chunk returns that id.
C5_ReturnsEverySurroundedId ==
    \A t \in Callers :
        Resolved(t) =>
            \A k \in KnownIds(chunks) :
                Surrounded(k, result[t]) => chunk_id[t] = k

\* C5 amended: whenever the placement response contains a known chunk id
\* surrounded by other text, _find_relevant_chunk returns a known chunk id that
\* occurs in the response, and that id is the surrounded one when the response
\* contains no other known id.
C5_ReturnsAnIdOfTheResponse ==
    \A t \in Callers :
        Resolved(t) =>
            \A k \in KnownIds(chunks) :
                Surrounded(k, result[t]) =>
                    /\ chunk_id[t] \in IdsIn(result[t], chunks)
                    /\ IdsIn(result[t], chunks) = {k} => chunk_id[t] = k

C5_Witness ==
    /\ Resolved(1)
    /\ Len(chunks) >= 2
    /\ \E k \in KnownIds(chunks) :
         /\ Surrounded(k, result[1])
         /\ IdsIn(result[1], chunks) = {k}
         /\ chunk_id[1] = k
         /\ k # chunks[1].chunk_id

----------------------------------------------------------------------------
(* C6 *)

\* C6: when the placement response is no sentinel and matches no known id by
\* exact equality, by its first id_truncate_limit characters or by containing
\* an id, _find_relevant_chunk returns None, and the next step of the call is
\* _create_new_chunk, which leaves the existing chunks as they are until the
\* new one is stored.
C6_NoTierMeansNoMatch ==
    [][\A t \in Callers :
          (Resolved(t) /\ ~IsSentinel(result[t]) /\ MatchesNoTier(result[t], chunks)) =>
             /\ chunk_id[t] = None
             /\ pc'[t] # pc[t] => (pc'[t] = "new_summary" /\ chunks' = chunks)]_vars

C6_Witness ==
    /\ pc[1] = "new_summary"
    /\ Len(chunks) >= 2
    /\ result[1] # <<>>
    /\ ~IsSentinel(result[1])
    /\ MatchesNoTier(result[1], chunks)
    /\ chunk_id[1] = None

----------------------------------------------------------------------------
(* C7 *)

\* C7: when the placement response equals none, no match, no chunks or no in
\* any letter case, _find_relevant_chunk returns None whatever the store holds,
\* and it returns from the no-match test, before any chunk id is looked for.
C7_SentinelMeansNoMatch ==
    \A t \in Callers :
        (Resolved(t) /\ IsSentinel(result[t])) =>
            /\ chunk_id[t] = None
            /\ returned_by[t] = "no match phrase"

C7_Witness ==
    /\ Resolved(1)
    /\ Len(chunks) >= 2
    /\ IsSentinel(result[1])
    /\ result[1] \notin NoMatchPhrases
    /\ result[1] \notin Sentinels
    /\ chunk_id[1] = None

----------------------------------------------------------------------------
(* C8 *)

\* C8: after k chunk creations the store holds k chunks whose chunk_index
\* values are 0..k-1, each chunk keeps the index of its creation, and a chunk
\* created later has a larger index.
C8_IndexesArePermutation ==
    /\ Len(chunks) = Len(created)
    /\ \A i \in 1..Len(chunks) : chunks[i].chunk_index = i - 1

----------------------------------------------------------------------------
(* C9 *)

\* C9: no step removes or replaces a chunk or changes its id, and the
\* propositions of a chunk before a step are a prefix of those after it.
C9_ChunksOnlyGrow ==
    [][/\ Len(chunks') >= Len(chunks)
       /\ \A i \in 1..Len(chunks) :
            /\ chunks'[i].chunk_id = chunks[i].chunk_id
            /\ IsPrefix(chunks[i].propositions, chunks'[i].propositions)]_vars

----------------------------------------------------------------------------
(* C10 *)

\* C10: a call of add_proposition that began on an empty store issues no
\* placement query, only the summary and title calls of creation in that
\* order, and when it returns the store holds one chunk with that proposition.
C10_EmptyStoreCreates ==
    \A t \in Callers :
        (pc[t] # "idle" /\ snapshot[t] = <<>>) =>
            /\ pc[t] \in {"create", "new_summary", "new_title", "done", "raised"}
            /\ IsPrefix(trace[t], <<"new_summary", "new_title">>)
            /\ pc[t] = "done" =>
                 /\ trace[t] = <<"new_summary", "new_title">>
                 /\ Len(chunks) = 1
                 /\ chunks[1].propositions = <<proposition[t]>>

C10_Witness ==
    /\ pc[1] = "done"
    /\ snapshot[1] = <<>>
    /\ trace[1] = <<"new_summary", "new_title">>
    /\ Len(chunks) = 1

----------------------------------------------------------------------------
(* C11 *)

\* the step of caller t that appends its proposition to the chunk found
AppendStep(t) ==
    /\ pc[t] = "resolved"
    /\ pc'[t] # "resolved"
    /\ Truthy(chunk_id[t])

\* C11: with generate_new_metadata_ind False, the step that appends a
\* proposition to an existing chunk leaves every title and summary as it was,
\* changes only that chunk's propositions and ends the call, and no call ever
\* issues a summary or title call of regeneration.
C11_FrozenMetadata ==
    [][~generate_new_metadata_ind =>
          \A t \in Callers :
             /\ "update_summary" \notin Elements(trace'[t])
             /\ "update_title" \notin Elements(trace'[t])
             /\ AppendStep(t) =>
                  /\ pc'[t] = "done"
                  /\ trace'[t] = trace[t]
                  /\ Len(chunks') = Len(chunks)
                  /\ \A i \in 1..Len(chunks) :
                       /\ chunks'[i].title = chunks[i].title
                       /\ chunks'[i].summary = chunks[i].summary
                       /\ chunks'[i].chunk_id = chunks[i].chunk_id
                       /\ chunks'[i].chunk_index = chunks[i].chunk_index
                       /\ chunks'[i].propositions =
                            IF chunks[i].chunk_id = chunk_id[t]
                            THEN Append(chunks[i].propositions, proposition[t])
                            ELSE chunks[i].propositions]_vars

C11_Witness ==
    /\ ~generate_new_metadata_ind
    /\ pc[1] = "done"
    /\ Truthy(chunk_id[1])
    /\ Len(chunks) >= 2
    /\ \E i \in 1..Len(chunks) :
         /\ chunks[i].chunk_id = chunk_id[1]
         /\ Len(chunks[i].propositions) >= 2
         /\ chunks[i].title = snapshot[1][i].title
         /\ chunks[i].summary = snapshot[1][i].summary

----------------------------------------------------------------------------
(* C12 *)

\* C12: a call on a non-empty store that has returned added exactly one chunk,
\* holding exactly its proposition, when placement found no match, and added
\* no chunk when placement returned a chunk id.
C12_CreatedExactlyOnNoMatch ==
    \A t \in Callers :
        (pc[t] = "done" /\ snapshot[t] # <<>>) =>
            IF Truthy(chunk_id[t])
            THEN Len(chunks) = Len(snapshot[t])
            ELSE /\ Len(chunks) = Len(snapshot[t]) + 1
                 /\ chunks[Len(chunks)].propositions = <<proposition[t]>>
                 /\ chunks[Len(chunks)].chunk_index = Len(snapshot[t])

----------------------------------------------------------------------------
(* C15 *)

\* C15: the propositions of a caller are taken in list order, a call begins
\* only when the earlier ones have ended, and the outline sent with a
\* placement query has one block per chunk of the store as the earlier calls
\* left it, with its id and its current title and summary, every id created
\* so far among them.
C15_OutlineSeesEarlierCalls ==
    \A t \in Callers :
        /\ \A i \in 1..Len(input[t]) : input[t][i] = proposition[t] + i
        /\ pc[t] = "find" =>
             /\ \A q \in Elements(arrived) : q < proposition[t]
             /\ Len(outline[t]) = Len(chunks)
             /\ \A i \in 1..Len(chunks) :
                  /\ outline[t][i][2] = chunks[i].chunk_id
                  /\ outline[t][i][4] = chunks[i].title
                  /\ outline[t][i][6] = chunks[i].summary
             /\ \A k \in Elements(created) :
                  \E i \in 1..Len(outline[t]) : outline[t][i][2] = k

C15_Witness ==
    /\ pc[1] = "find"
    /\ proposition[1] = 3
    /\ Len(arrived) = 2
    /\ Len(outline[1]) = 1
    /\ outline[1][1][6] = "s2"
    /\ snapshot[1][1].propositions = <<1, 2>>

----------------------------------------------------------------------------
(* C16 *)

\* the running call of caller t has appended its proposition to a chunk
Appended(t) ==
    /\ Truthy(chunk_id[t])
    /\ pc[t] \in {"update_summary", "update_title", "done", "raised"}

\* C16: once a call whose placement returned chunk id X has appended, the
\* store has the chunks it had when the call began, all unchanged except X,
\* whose propositions are the former ones followed by the proposition, once,
\* and whose id and index are unchanged.
C16_OnlyTheFoundChunkChanges ==
    \A t \in Callers :
        Appended(t) =>
            /\ Len(chunks) = Len(snapshot[t])
            /\ \A i \in 1..Len(chunks) :
                 IF snapshot[t][i].chunk_id = chunk_id[t]
                 THEN /\ chunks[i].chunk_id = chunk_id[t]
                      /\ chunks[i].chunk_index = snapshot[t][i].chunk_index
                      /\ chunks[i].propositions =
                            Append(snapshot[t][i].propositions, proposition[t])
                 ELSE chunks[i] = snapshot[t][i]

C16_Witness ==
    /\ pc[1] = "done"
    /\ Appended(1)
    /\ Len(chunks) >= 2
    /\ \E i \in 1..Len(chunks) :
         /\ chunks[i].chunk_id = chunk_id[1]
         /\ chunks[i].title # snapshot[1][i].title
         /\ chunks[i].summary # snapshot[1][i].summary

----------------------------------------------------------------------------
(* C19 *)

\* C19: _find_relevant_chunk returns None or a key of the store, which is
\* never a false value, so a call that has returned has put its proposition
\* into a chunk of the store.
C19_ReturnsNoneOrAKey ==
    \A t \in Callers :
        /\ Resolved(t) =>
             \/ chunk_id[t] = None
             \/ HasKey(chunks, chunk_id[t]) /\ Truthy(chunk_id[t])
        /\ pc[t] = "done" => Occurrences(proposition[t], chunks) # {}

C19_Witness ==
    /\ Resolved(1)
    /\ Len(chunks) >= 1
    /\ result[1] = <<>>
    /\ chunk_id[1] = None

----------------------------------------------------------------------------
(* C20 *)

\* the place of the first creation of id k among the creations
FirstCreated(k) == Min({i \in 1..Len(created) : created[i] = k})

\* the first place at which k occurs in r
FirstPlace(k, r) ==
    Min({i \in 1..Len(r) : i + Len(k) - 1 <= Len(r) /\ SubSeq(r, i, i + Len(k) - 1) = k})

\* C20: when the placement response contains more than one known chunk id,
\* _find_relevant_chunk returns the id equal to the first id_truncate_limit
\* characters of the response if that is a known id, and otherwise the id,
\* among those in the response, that is first in store order, which is the
\* one created earliest.
C20_TierPrecedence ==
    \A t \in Callers :
        (Resolved(t) /\ Cardinality(IdsIn(result[t], chunks)) >= 2) =>
            IF MatchesTruncated(result[t], chunks)
            THEN chunk_id[t] = SubSeq(result[t], 1, id_truncate_limit)
            ELSE /\ chunk_id[t] \in IdsIn(result[t], chunks)
                 /\ \A k \in IdsIn(result[t], chunks) :
                      /\ FirstCreated(chunk_id[t]) <= FirstCreated(k)
                      /\ \A i, j \in 1..Len(chunks) :
                           (chunks[i].chunk_id = chunk_id[t] /\ chunks[j].chunk_id = k)
                              => i <= j

C20_Witness ==
    /\ Resolved(1)
    /\ ~MatchesTruncated(result[1], chunks)
    /\ Cardinality(IdsIn(result[1], chunks)) = 2
    /\ chunk_id[1] = chunks[1].chunk_id
    /\ \E k \in IdsIn(result[1], chunks) :
         FirstPlace(k, result[1]) < FirstPlace(chunk_id[1], result[1])

----------------------------------------------------------------------------
(* C13 *)

\* the place before the j-th of the texts when they are written one after
\* the other with one character between them
RECURSIVE Before(_, _)
Before(texts, j) ==
    IF j = 1 THEN 0 ELSE Before(texts, j - 1) + Len(texts[j - 1]) + 1

\* str is the texts in their order with a single space between neighbours
SpaceJoined(str, texts) ==
    /\ Len(str) = Before(texts, Len(texts) + 1) - 1
    /\ \A j \in 1..Len(texts) :
         /\ SubSeq(str, Before(texts, j) + 1, Before(texts, j) + Len(texts[j])) = texts[j]
         /\ j > 1 => str[Before(texts, j)] = " "

\* C13: get_chunks('list_of_strings') returns one string per chunk, in store
\* order, which is the order in which the ids were created; each string is
\* the chunk's propositions in arrival order with a single space between
\* them; two propositions placed together give the one string holding both.
C13_ListOfStrings ==
    got.get_type = "list_of_strings" =>
        /\ Len(got.value) = Len(chunks)
        /\ \A i \in 1..Len(chunks) :
             /\ chunks[i].propositions # <<>>
             /\ SpaceJoined(got.value[i],
                            [j \in 1..Len(chunks[i].propositions) |->
                                PropositionText(chunks[i].propositions[j])])
             /\ \A j \in 1..Len(chunks) :
                  i < j => FirstCreated(chunks[i].chunk_id) < FirstCreated(chunks[j].chunk_id)
        /\ (Len(chunks) = 1 /\ chunks[1].propositions = <<1, 2>>) =>
              got.value = << <<"p", " ", "1", ".", " ", "p", " ", "2", ".">> >>

C13_Witness ==
    /\ got.get_type = "list_of_strings"
    /\ arrived = <<1, 2>>
    /\ Len(chunks) = 1
    /\ got.value = << <<"p", " ", "1", ".", " ", "p", " ", "2", ".">> >>

----------------------------------------------------------------------------
(* C14 *)

\* the text has one block per chunk, in store order, with the chunk's id,
\* title and summary
ListsTheStore(text, ch) ==
    /\ Len(text) = Len(ch)
    /\ \A i \in 1..Len(ch) :
         /\ text[i][2] = ch[i].chunk_id
         /\ text[i][4] = ch[i].title
         /\ text[i][6] = ch[i].summary

\* C14: a call of get_chunk_outline leaves the store as it is, returns a
\* text that lists every chunk's id, title and summary in store order, and
\* returns the text of the call before it when the store was not changed
\* between the two.
C14_OutlineIdempotent ==
    [][shown'.calls > shown.calls =>
          /\ chunks' = chunks
          /\ ListsTheStore(shown'.text, chunks)
          /\ shown.calls > 0 => shown'.text = shown.text]_vars

C14_Witness ==
    /\ shown.calls = 2
    /\ Len(chunks) = 2
    /\ ListsTheStore(shown.text, chunks)
    /\ chunks[1].title # chunks[2].title

----------------------------------------------------------------------------
(* C17 *)

\* the oracle calls a call of add_proposition may have issued so far
CallOrders ==
    { <<"find", "update_summary", "update_title">>,
      <<"find", "new_summary", "new_title">>,
      <<"new_summary", "new_title">> }

InCall(t) == pc[t] \notin {"idle", "done", "raised"}

C17_Safety ==
    \A t \in Callers :
        /\ \E order \in CallOrders : IsPrefix(trace[t], order)
        /\ pc[t] \in {"find", "resolved", "create"} => chunks = snapshot[t]
        /\ "new_summary" \in Elements(trace[t]) => ~Truthy(chunk_id[t])
        /\ (InCall(t) /\ Truthy(chunk_id[t])) => pc[t] \in {"resolved", "update_summary", "update_title"}
        /\ pc[t] = "done" =>
             IF Truthy(chunk_id[t])
             THEN /\ Len(chunks) = Len(snapshot[t])
                  /\ \E i \in 1..Len(chunks) :
                       chunks[i].propositions =
                          Append(snapshot[t][i].propositions, proposition[t])
             ELSE /\ trace[t][Len(trace[t])] = "new_title"
                  /\ \E i \in 1..Len(chunks) :
                       chunks[i].propositions = <<proposition[t]>>

\* C17: a call issues at most one placement query, first, and then the calls
\* of an append or those of a creation, never both; the store is as the call
\* found it until the placement result is known; a call that has returned has
\* either appended to the chunk found or stored a new chunk; and a call none
\* of whose oracle calls raises returns.
C17_StartResolvedAppendedOrCreatedDone ==
    /\ []C17_Safety
    /\ \A t \in Callers :
         [](pc[t] # "raised") => (InCall(t) ~> pc[t] = "done")

C17_Witness ==
    /\ pc[1] = "done"
    /\ Len(arrived) = 2
    /\ trace[1] = <<"find", "update_summary", "update_title">>
    /\ Truthy(chunk_id[1])

----------------------------------------------------------------------------
(* C18 *)

\* both callers have returned from calls whose placement queries carried the
\* same outline of a non-empty store, and both were told there is no match
BothResolvedOnOneOutline ==
    /\ pc[1] = "done" /\ pc[2] = "done"
    /\ outline[1] # <<>> /\ outline[1] = outline[2]
    /\ returned_by[1] # "not called" /\ returned_by[2] # "not called"
    /\ chunk_id[1] = None /\ chunk_id[2] = None

\* C18: nothing makes resolve and create one unit: when two concurrent calls
\* were resolved to no match on one outline and drew different fresh ids, both
\* store a chunk, so the two propositions are in two separate new chunks that
\* neither call's outline showed.
C18_RaceMakesTwoChunks ==
    (/\ BothResolvedOnOneOutline
     /\ new_chunk_id[1] # new_chunk_id[2]
     /\ \A i \in 1..Len(outline[1]) :
          outline[1][i][2] \notin {new_chunk_id[1], new_chunk_id[2]})
    => /\ Len(chunks) = Len(outline[1]) + 2
       /\ \E i, j \in 1..Len(chunks) :
            /\ i # j
            /\ chunks[i].propositions = <<proposition[1]>>
            /\ chunks[j].propositions = <<proposition[2]>>

C18_Witness ==
    /\ BothResolvedOnOneOutline
    /\ Len(outline[1]) = 1
    /\ Len(chunks) = 3
    /\ chunks[2].propositions = <<proposition[2]>>
    /\ chunks[3].propositions = <<proposition[1]>>

====
